---- MODULE Spec2Model ----
(***************************************************************************)
(* Model of the AVScan mock service (src/avscan-simple-mock.py).           *)
(*                                                                         *)
(* Each inbound POST /scan request is one run of scan_file().  A run is a  *)
(* small sequential process: its position is pc[r], its Python locals are  *)
(* local[r], and everything it does that the outside can see (the probe,   *)
(* the body read, the sleeps, the outbound POSTs, the response) is logged  *)
(* in obs[r].  The inbound request and the callback target are the inputs. *)
(***************************************************************************)
EXTENDS Integers, Sequences, FiniteSets, TLC

VARIABLES request, target, pc, local, obs, health

vars == <<request, target, pc, local, obs, health>>

(* ---------------------------------------------------------------------- *)
(* Bounds of the model                                                     *)
(* ---------------------------------------------------------------------- *)
MaxBodyLen == 2

Reqs == {"r1", "r2"}

Bytes == {0, 255}

(* ---------------------------------------------------------------------- *)
(* Values                                                                  *)
(* ---------------------------------------------------------------------- *)
EmptyMap == [x \in {} |-> x]

(* Python's None, as the value of headers.get('targetUrl'). *)
PyNone == <<"None">>

(* A URL is the sequence of its lexical pieces. *)
UrlGood == <<"http://", "collab", ":", "8080", "/", "cb">>
UrlNoScheme == <<"collab", ":", "8080", "/", "cb">>
UrlBadPort == <<"http://", "collab", ":", "80a", "/", "cb">>
UrlEmpty == <<>>

Urls == {UrlGood, UrlNoScheme, UrlBadPort, UrlEmpty}

RECURSIVE SeqsUpTo(_, _)
SeqsUpTo(S, n) ==
    IF n = 0 THEN {<<>>}
    ELSE LET shorter == SeqsUpTo(S, n - 1)
         IN  shorter \cup {Append(s, b) : s \in {t \in shorter : Len(t) = n - 1}, b \in S}

Bodies == SeqsUpTo(Bytes, MaxBodyLen)

Opt(name, values) == {EmptyMap} \cup {name :> v : v \in values}

InboundHeaders ==
    {a @@ b @@ c @@ d :
        a \in Opt("targetUrl", Urls),
        b \in Opt("scan-reference-id", {"ref-1"}),
        c \in Opt("original-filename", {"a.txt"}),
        d \in Opt("original-content-type", {"text/plain"})}

(* An inbound request: its headers, its body, and whether reading the body *)
(* raises (client disconnect, broken transfer encoding).                   *)
Requests ==
    {[headers |-> h, body |-> b, readError |-> FALSE] : h \in InboundHeaders, b \in Bodies}
    \cup {[headers |-> h, body |-> <<>>, readError |-> TRUE] : h \in InboundHeaders}

(* What one requests.post() call can come back with. *)
Status(c) == [kind |-> "status", code |-> c, detail |-> ""]
TimeoutOutcome == [kind |-> "timeout", code |-> 0, detail |-> ""]
ConnErr(d) == [kind |-> "connerr", code |-> 0, detail |-> d]
OtherErr(d) == [kind |-> "other", code |-> 0, detail |-> d]

Outcomes ==
    {Status(200), Status(404), Status(503), TimeoutOutcome,
     ConnErr("refused"), ConnErr("reset"), OtherErr("chunked encoding error")}

max_retries == 3

HasHttpScheme(url) == Len(url) > 0 /\ url[1] \in {"http://", "https://"}

(* The callback target as the handler meets it: whether a TCP connect to   *)
(* it succeeds, and what the 1st, 2nd, 3rd requests.post() to it comes     *)
(* back with.  A target nobody can connect to fails every POST with a      *)
(* connection error.                                                       *)
NoTarget == [reachable |-> FALSE, replies |-> [k \in 1..max_retries |-> ConnErr("refused")]]

Targets ==
    {[reachable |-> TRUE, replies |-> s] : s \in [1..max_retries -> Outcomes]}
    \cup {NoTarget}

(* A URL without an http scheme is refused by the client library before    *)
(* anything is sent, whatever listens at the address.                      *)
SchemelessTargets ==
    {[reachable |-> b, replies |-> [k \in 1..max_retries |-> OtherErr("invalid schema")]] :
        b \in BOOLEAN}

(* The targets a request's targetUrl can name: none when the header is     *)
(* missing, empty, or names no port.                                       *)
TargetsOf(headers) ==
    IF "targetUrl" \notin DOMAIN headers THEN {NoTarget}
    ELSE LET url == headers["targetUrl"]
         IN  IF url = <<>> \/ url = UrlBadPort THEN {NoTarget}
             ELSE IF HasHttpScheme(url) THEN Targets
             ELSE SchemelessTargets

IdleRequest == [headers |-> EmptyMap, body |-> <<>>, readError |-> FALSE]


(* ---------------------------------------------------------------------- *)
(* Pure helpers of the handler                                             *)
(* ---------------------------------------------------------------------- *)

(* request.headers.get(name, default) *)
HeaderGet(headers, name, default) ==
    IF name \in DOMAIN headers THEN headers[name] ELSE default

(* `not target_url`: None and the empty string are both falsy. *)
NotTargetUrlOnlyEmpty(target_url) == target_url = <<>>

NotTargetUrl(target_url) == target_url = PyNone \/ target_url = <<>>

IsNumeral(tok) == tok \in {"80", "443", "8080"}

Index(s, x) == IF \E i \in 1..Len(s) : s[i] = x
               THEN CHOOSE i \in 1..Len(s) : s[i] = x /\ \A j \in 1..(i - 1) : s[j] # x
               ELSE 0

Count(s, x) == Cardinality({i \in 1..Len(s) : s[i] = x})

StartsWith(url, scheme) == Len(url) > 0 /\ url[1] = scheme

(* Lines 33-51: the host:port pieces of the URL; ok is FALSE where the     *)
(* code raises (ValueError from the unpacking or from int()).              *)
ParseHostPort(target_url) ==
    LET url_part == IF StartsWith(target_url, "http://") \/ StartsWith(target_url, "https://")
                    THEN Tail(target_url) ELSE target_url
        slash == Index(url_part, "/")
        host_port == IF slash > 0 THEN SubSeq(url_part, 1, slash - 1) ELSE url_part
        colon == Index(host_port, ":")
    IN  IF colon > 0
        THEN [ok |-> Count(host_port, ":") = 1
                     /\ colon = Len(host_port) - 1
                     /\ IsNumeral(host_port[Len(host_port)]),
              host |-> SubSeq(host_port, 1, colon - 1),
              port |-> SubSeq(host_port, colon + 1, Len(host_port))]
        ELSE [ok |-> TRUE,
              host |-> host_port,
              port |-> IF StartsWith(target_url, "http://") THEN <<"80">> ELSE <<"443">>]

test_callback_connectivity_ignored(target_url, tgt) == TRUE

(* Lines 29-70: TRUE iff the URL parses and the TCP connect returns 0;     *)
(* every exception (None has no startswith, a bad port) gives FALSE.       *)
test_callback_connectivity(target_url, tgt) ==
    IF target_url = PyNone THEN FALSE
    ELSE ParseHostPort(target_url).ok /\ tgt.reachable

RECURSIVE str(_)
str(n) == IF n < 10 THEN <<n>> ELSE str(n \div 10) \o <<n % 10>>

RECURSIVE int(_)
int(digits) == IF Len(digits) = 0 THEN 0
               ELSE 10 * int(SubSeq(digits, 1, Len(digits) - 1)) + digits[Len(digits)]

(* Lines 188-196 *)
callback_headers_swapped(scan_ref_id, original_filename, original_content_type, file_size) ==
    ("Content-Type" :> "application/octet-stream")
    @@ ("scan-reference-id" :> scan_ref_id)
    @@ ("scan-result" :> "CLEAN")
    @@ ("original-filename" :> original_content_type)
    @@ ("original-content-type" :> original_filename)
    @@ ("Content-Length" :> str(file_size))
    @@ ("User-Agent" :> "AVScan-Mock/1.0")

callback_headers_chars(scan_ref_id, original_filename, original_content_type, file_size) ==
    ("Content-Type" :> "application/octet-stream")
    @@ ("scan-reference-id" :> scan_ref_id)
    @@ ("scan-result" :> "CLEAN")
    @@ ("original-filename" :> original_filename)
    @@ ("original-content-type" :> original_content_type)
    @@ ("Content-Length" :> str(file_size + 1))
    @@ ("User-Agent" :> "AVScan-Mock/1.0")

callback_headers(scan_ref_id, original_filename, original_content_type, file_size) ==
    ("Content-Type" :> "application/octet-stream")
    @@ ("scan-reference-id" :> scan_ref_id)
    @@ ("scan-result" :> "CLEAN")
    @@ ("original-filename" :> original_filename)
    @@ ("original-content-type" :> original_content_type)
    @@ ("Content-Length" :> str(file_size))
    @@ ("User-Agent" :> "AVScan-Mock/1.0")

(* Response(body, status=...): msg is the fixed text of the body, code and *)
(* detail the values formatted into it.                                    *)
Response(status, msg, code, detail) ==
    [status |-> status, msg |-> msg, code |-> code, detail |-> detail]

(* Line 97 *)
MissingTargetUrlResponse == Response(400, "Missing targetUrl header", 0, "")

(* Lines 112-113 *)
CannotReachResponse ==
    Response(500, "Cannot reach callback URL - check network configuration", 0, "")

ReadErrorResponseAs500(detail) == Response(500, "Error reading request body", 0, detail)

(* Line 147 *)
ReadErrorResponse(detail) == Response(400, "Error reading request body", 0, detail)

(* Line 151 *)
NoContentResponse == Response(400, "No file content received", 0, "")

(* Line 158 *)
EmptyContentResponse == Response(400, "Empty file content", 0, "")

(* Line 181 *)
InfectedResponse == Response(200, "INFECTED: Simulated virus detected", 0, "")

(* Lines 228-229 *)
SuccessResponse(file_size) ==
    Response(200, "SUCCESS: File scanned and forwarded", file_size, "")

FailureResponseOfFirst(outcomes) ==
    LET first == outcomes[1]
    IN  CASE first.kind = "status" ->
               Response(500, "Callback failed after attempts: HTTP", first.code, "")
          [] first.kind = "timeout" ->
               Response(500, "Callback timeout after retries", 0, "")
          [] OTHER ->
               Response(500, "Callback connection error after retries", 0, first.detail)

(* Lines 239-240, 249, 258-259: the response once the attempts are used    *)
(* up; callback_response and conn_err are those of the current iteration.  *)
FailureResponse(outcomes) ==
    LET last == outcomes[Len(outcomes)]
    IN  CASE last.kind = "status" ->
               Response(500, "Callback failed after attempts: HTTP", last.code, "")
          [] last.kind = "timeout" ->
               Response(500, "Callback timeout after retries", 0, "")
          [] OTHER ->
               Response(500, "Callback connection error after retries", 0, last.detail)

CallbackErrorResponseAs400(detail) == Response(400, "Callback error", 0, detail)

(* Line 264 *)
CallbackErrorResponse(detail) == Response(500, "Callback error", 0, detail)

(* Line 179: random.random() < 0.01, the draw in ten-thousandths. *)
InfectionThreshold == 100

Draws == {0, 99, 100, 9999}

IsInfectedInverted(draw) == draw >= InfectionThreshold

IsInfected(draw) == draw < InfectionThreshold

(* Line 174: random.uniform(0.5, 2.0), in tenths of a second. *)
ScanDelays == {5, 20}

(* Line 206 *)
initial_retry_delay == 1

(* Line 216 *)
callback_timeout == 300

NextRetryDelayTriple(retry_delay) == retry_delay * 3

NextRetryDelaySame(retry_delay) == retry_delay

(* Lines 237, 247, 256: retry_delay *= 2 *)
NextRetryDelay(retry_delay) == retry_delay * 2

RetryAllowedOneMore(attempt) == attempt < max_retries

RetryAllowedOneLess(attempt) == attempt < max_retries - 2

(* Lines 234, 244, 253: attempt < max_retries - 1 *)
RetryAllowed(attempt) == attempt < max_retries - 1

IsRetryableAnyFailure(outcome) == TRUE

(* Lines 230, 242, 251: the failures the loop handles itself: a response   *)
(* with another status, Timeout, ConnectionError.  Anything else leaves    *)
(* the loop for the handler at line 261.                                   *)
IsRetryable(outcome) == outcome.kind \in {"status", "timeout", "connerr"}

IsSuccessStatusBelow500(status_code) == status_code < 500

(* Line 226: callback_response.status_code == 200 *)
IsSuccessStatus(status_code) == status_code = 200

(* Lines 212-218: what the n-th requests.post() of a request comes back    *)
(* with.                                                                   *)
requests_post(url, tgt, n) ==
    tgt.replies[IF n <= max_retries THEN n ELSE max_retries]

(* ---------------------------------------------------------------------- *)
(* State                                                                   *)
(* ---------------------------------------------------------------------- *)
InitLocal ==
    [target_url |-> PyNone, scan_ref_id |-> "", original_filename |-> "",
     original_content_type |-> "", file_content |-> <<>>, file_size |-> 0,
     callback_headers |-> EmptyMap, attempt |-> 0, retry_delay |-> 0]

InitObs ==
    [probe |-> "none", probes |-> 0, bodyRead |-> FALSE, scanDelay |-> 0, draw |-> -1,
     posts |-> <<>>, sleeps |-> <<>>, responses |-> <<>>]

(* Nobody has asked GET /health yet. *)
NoHealthResponse == Response(0, "", 0, "")

Init ==
    /\ \E q \in Requests : \E t \in TargetsOf(q.headers) :
          /\ request = [r \in Reqs |-> IF r = "r1" THEN q ELSE IdleRequest]
          /\ target = [r \in Reqs |-> IF r = "r1" THEN t ELSE NoTarget]
    /\ pc = [r \in Reqs |-> IF r = "r1" THEN "start" ELSE "idle"]
    /\ local = [r \in Reqs |-> InitLocal]
    /\ obs = [r \in Reqs |-> InitObs]
    /\ health = NoHealthResponse

(* return Response(...): the handler ends with this response. *)
Return(r, resp, l, o) ==
    /\ pc' = [pc EXCEPT ![r] = "done"]
    /\ local' = [local EXCEPT ![r] = l]
    /\ obs' = [obs EXCEPT ![r] = [o EXCEPT !.responses = Append(@, resp)]]

Goto(r, label, l, o) ==
    /\ pc' = [pc EXCEPT ![r] = label]
    /\ local' = [local EXCEPT ![r] = l]
    /\ obs' = [obs EXCEPT ![r] = o]

(* Lines 93-106: the required header, then the optional ones. *)
ValidateHeaders(r) ==
    /\ pc[r] = "start"
    /\ LET h == request[r].headers
           target_url == HeaderGet(h, "targetUrl", PyNone)
       IN  IF NotTargetUrl(target_url)
           THEN Return(r, MissingTargetUrlResponse,
                       [local[r] EXCEPT !.target_url = target_url], obs[r])
           ELSE Goto(r, "probe",
                     [local[r] EXCEPT
                        !.target_url = target_url,
                        !.scan_ref_id = HeaderGet(h, "scan-reference-id", ""),
                        !.original_filename = HeaderGet(h, "original-filename", "unknown"),
                        !.original_content_type =
                            HeaderGet(h, "original-content-type", "application/octet-stream")],
                     obs[r])
    /\ UNCHANGED <<request, target, health>>

(* Lines 108-113: the connectivity test, before the body is read. *)
ProbeCallback(r) ==
    /\ pc[r] = "probe"
    /\ IF ~test_callback_connectivity(local[r].target_url, target[r])
       THEN Return(r, CannotReachResponse, local[r],
                   [obs[r] EXCEPT !.probe = "failed", !.probes = @ + 1])
       ELSE Goto(r, "read", local[r], [obs[r] EXCEPT !.probe = "ok", !.probes = @ + 1])
    /\ UNCHANGED <<request, target, health>>

(* Lines 115-158: request.data and its fallbacks; every one of them yields *)
(* the body the client sent, or raises.                                    *)
ReadBody(r) ==
    /\ pc[r] = "read"
    /\ LET o == [obs[r] EXCEPT !.bodyRead = TRUE]
       IN  IF request[r].readError
           THEN Return(r, ReadErrorResponse("read failed"), local[r], o)
           ELSE LET file_content == request[r].body
                    file_size == Len(file_content)
                    l == [local[r] EXCEPT !.file_content = file_content]
                IN  IF file_content = <<>>
                    THEN Return(r, NoContentResponse, l, o)
                    ELSE IF file_size = 0
                    THEN Return(r, EmptyContentResponse, [l EXCEPT !.file_size = file_size], o)
                    ELSE Goto(r, "scan", [l EXCEPT !.file_size = file_size], o)
    /\ UNCHANGED <<request, target, health>>

ScanDelaySkipped(r) ==
    /\ pc[r] = "scan"
    /\ Goto(r, "verdict", local[r], obs[r])
    /\ UNCHANGED <<request, target, health>>

(* Lines 173-176: the simulated scan time. *)
ScanDelay(r) ==
    /\ pc[r] = "scan"
    /\ \E scan_time \in ScanDelays :
          Goto(r, "verdict", local[r], [obs[r] EXCEPT !.scanDelay = scan_time])
    /\ UNCHANGED <<request, target, health>>

(* Lines 178-184: the verdict draw. *)
Verdict(r) ==
    /\ pc[r] = "verdict"
    /\ \E draw \in Draws :
          LET o == [obs[r] EXCEPT !.draw = draw]
          IN  IF IsInfected(draw)
              THEN Return(r, InfectedResponse, local[r], o)
              ELSE Goto(r, "prepare", local[r], o)
    /\ UNCHANGED <<request, target, health>>

(* Lines 186-206: the callback headers and the retry state. *)
PrepareCallback(r) ==
    /\ pc[r] = "prepare"
    /\ LET l == local[r]
       IN  Goto(r, "loop",
                [l EXCEPT
                   !.callback_headers =
                       callback_headers(l.scan_ref_id, l.original_filename,
                                        l.original_content_type, l.file_size),
                   !.attempt = 0,
                   !.retry_delay = initial_retry_delay],
                obs[r])
    /\ UNCHANGED <<request, target, health>>

(* Lines 208-264: one iteration of `for attempt in range(max_retries)`:    *)
(* the POST and what follows from its outcome.  When the range is used up  *)
(* the function ends without a return statement.                           *)
CallbackAttempt(r) ==
    /\ pc[r] = "loop"
    /\ LET l == local[r]
       IN  IF l.attempt < max_retries
           THEN LET outcome == requests_post(l.target_url, target[r], Len(obs[r].posts) + 1)
                    post == [url |-> l.target_url, data |-> l.file_content,
                             headers |-> l.callback_headers, timeout |-> callback_timeout,
                             outcome |-> outcome]
                    o == [obs[r] EXCEPT !.posts = Append(@, post)]
                    outcomes == [i \in 1..Len(o.posts) |-> o.posts[i].outcome]
                IN  CASE outcome.kind = "status" /\ IsSuccessStatus(outcome.code) ->
                            Return(r, SuccessResponse(l.file_size), l, o)
                      [] ~IsRetryable(outcome) ->
                            Return(r, CallbackErrorResponse(outcome.detail), l, o)
                      [] OTHER ->
                            IF RetryAllowed(l.attempt)
                            THEN Goto(r, "backoff", l, o)
                            ELSE Return(r, FailureResponse(outcomes), l, o)
           ELSE Goto(r, "no_return", l, obs[r])
    /\ UNCHANGED <<request, target, health>>

BackoffConsumesPayload(r) ==
    /\ pc[r] = "backoff"
    /\ LET l == local[r]
       IN  Goto(r, "loop",
                [l EXCEPT !.retry_delay = NextRetryDelay(l.retry_delay),
                          !.attempt = l.attempt + 1,
                          !.file_content = <<>>],
                [obs[r] EXCEPT !.sleeps = Append(@, l.retry_delay)])
    /\ UNCHANGED <<request, target, health>>

(* Lines 235-237, 245-247, 254-256: the sleep, the doubled delay, and the  *)
(* next iteration of the loop.                                             *)
Backoff(r) ==
    /\ pc[r] = "backoff"
    /\ LET l == local[r]
       IN  Goto(r, "loop",
                [l EXCEPT !.retry_delay = NextRetryDelay(l.retry_delay),
                          !.attempt = l.attempt + 1],
                [obs[r] EXCEPT !.sleeps = Append(@, l.retry_delay)])
    /\ UNCHANGED <<request, target, health>>

(* Line 280 *)
HealthResponseUnlessBusy ==
    IF \E r \in Reqs : pc[r] \notin {"idle", "start", "done"}
    THEN Response(503, "Improved AVScan Mock is running", 0, "")
    ELSE Response(200, "Improved AVScan Mock is running", 0, "")

HealthResponse == Response(200, "Improved AVScan Mock is running", 0, "")

(* Lines 276-280: GET /health. *)
health_check ==
    /\ health' = HealthResponse
    /\ UNCHANGED <<request, target, pc, local, obs>>

threaded_off == FALSE

(* Line 341: app.run(threaded=True), one thread per request. *)
threaded == TRUE

(* Whether the server lets the handler of request r run now: always with  *)
(* a thread per request; otherwise only while no other handler is between *)
(* its first and its last statement.                                      *)
Scheduled(r) ==
    threaded \/ \A q \in Reqs \ {r} : pc[q] \in {"idle", "start", "done"}

(* One step of the handler run r.  The statements of scan_file outside    *)
(* the two inner try blocks (header access, logging, slicing, sleeping)   *)
(* raise nothing, so the handlers at lines 266-274 are never entered;     *)
(* what can fail is the body read (lines 119-147) and the POST (lines     *)
(* 209-264), and both failures are outcomes of their steps.               *)
scan_file(r) ==
    \/ ValidateHeaders(r)
    \/ ProbeCallback(r)
    \/ ReadBody(r)
    \/ ScanDelay(r)
    \/ Verdict(r)
    \/ PrepareCallback(r)
    \/ CallbackAttempt(r)
    \/ Backoff(r)

Next == \E r \in Reqs : scan_file(r)

Spec == Init /\ [][Next]_vars

(* The requests that differ in what the handler's control flow looks at:  *)
(* the targetUrl header, and a body that is empty, not empty, or           *)
(* unreadable.                                                             *)
FairRequests ==
    {q \in Requests : DOMAIN q.headers \subseteq {"targetUrl"} /\ Len(q.body) <= 1}

InitFair ==
    /\ \E q \in FairRequests : \E t \in TargetsOf(q.headers) :
          /\ request = [r \in Reqs |-> IF r = "r1" THEN q ELSE IdleRequest]
          /\ target = [r \in Reqs |-> IF r = "r1" THEN t ELSE NoTarget]
    /\ pc = [r \in Reqs |-> IF r = "r1" THEN "start" ELSE "idle"]
    /\ local = [r \in Reqs |-> InitLocal]
    /\ obs = [r \in Reqs |-> InitObs]
    /\ health = NoHealthResponse

(* Every wait of a handler run ends (the probe's 5 second socket timeout,  *)
(* the scan delay, the POST's 300 second timeout, the backoff sleep), so   *)
(* a run that can take a step eventually takes it.                         *)
SpecFair ==
    /\ InitFair
    /\ [][Next]_vars
    /\ \A r \in Reqs : WF_vars(scan_file(r))

(* ---------------------------------------------------------------------- *)
(* Two requests in flight at once, and GET /health at any moment           *)
(* ---------------------------------------------------------------------- *)
RequestA ==
    [headers |-> ("targetUrl" :> UrlGood) @@ ("scan-reference-id" :> "ref-1")
                 @@ ("original-filename" :> "a.txt"),
     body |-> <<0, 255>>, readError |-> FALSE]

RequestB ==
    [headers |-> ("targetUrl" :> UrlGood) @@ ("original-content-type" :> "text/plain"),
     body |-> <<255>>, readError |-> FALSE]

RequestNoUrl == [headers |-> EmptyMap, body |-> <<0>>, readError |-> FALSE]

RequestNoBody == [headers |-> ("targetUrl" :> UrlGood), body |-> <<>>, readError |-> FALSE]

Script(a, b, c) == [reachable |-> TRUE, replies |-> <<a, b, c>>]

ConcurrentTargets ==
    {Script(Status(200), Status(200), Status(200)),
     Script(Status(503), TimeoutOutcome, Status(200)),
     Script(ConnErr("refused"), ConnErr("reset"), Status(404)),
     Script(Status(503), OtherErr("chunked encoding error"), Status(200)),
     NoTarget}

ConcurrentInputs ==
    ({RequestA, RequestB} \X ConcurrentTargets)
    \cup {<<RequestNoUrl, NoTarget>>, <<RequestNoBody, Script(Status(200), Status(200), Status(200))>>}

InitConcurrent ==
    /\ \E in \in [Reqs -> ConcurrentInputs] :
          /\ request = [r \in Reqs |-> in[r][1]]
          /\ target = [r \in Reqs |-> in[r][2]]
    /\ pc = [r \in Reqs |-> "start"]
    /\ local = [r \in Reqs |-> InitLocal]
    /\ obs = [r \in Reqs |-> InitObs]
    /\ health = NoHealthResponse

(* A step of request r that the server lets run. *)
Run(r) ==
    \/ Scheduled(r) /\ ValidateHeaders(r)
    \/ Scheduled(r) /\ ProbeCallback(r)
    \/ Scheduled(r) /\ ReadBody(r)
    \/ Scheduled(r) /\ ScanDelay(r)
    \/ Scheduled(r) /\ Verdict(r)
    \/ Scheduled(r) /\ PrepareCallback(r)
    \/ Scheduled(r) /\ CallbackAttempt(r)
    \/ Scheduled(r) /\ Backoff(r)

NextConcurrent ==
    \/ health_check
    \/ \E r \in Reqs : Run(r)

SpecConcurrent == InitConcurrent /\ [][NextConcurrent]_vars

(* ---------------------------------------------------------------------- *)
(* Vocabulary of the properties                                            *)
(* ---------------------------------------------------------------------- *)
Active(r) == pc[r] # "idle"

Done(r) == pc[r] = "done"

Resp(r) == obs[r].responses[1]

Posts(r) == obs[r].posts

Sleeps(r) == obs[r].sleeps

DrawnClean(r) == obs[r].draw >= InfectionThreshold

DrawnInfected(r) == obs[r].draw >= 0 /\ obs[r].draw < InfectionThreshold

EmptyBody(r) == request[r].body = <<>>

TransientFailure(outcome) ==
    \/ outcome.kind = "status" /\ outcome.code # 200
    \/ outcome.kind = "timeout"
    \/ outcome.kind = "connerr"

Non200(outcome) == outcome.kind = "status" /\ outcome.code # 200

RetryMessages ==
    {"Callback failed after attempts: HTTP", "Callback timeout after retries",
     "Callback connection error after retries"}

(* ---------------------------------------------------------------------- *)
(* C1: a request without the targetUrl header is answered 400; its body    *)
(* is never read and no callback POST is made.                             *)
(* ---------------------------------------------------------------------- *)
C1_MissingTargetUrl ==
    \A r \in Reqs :
        Active(r) /\ "targetUrl" \notin DOMAIN request[r].headers =>
            /\ pc[r] \in {"start", "done"}
            /\ ~obs[r].bodyRead
            /\ Posts(r) = <<>>
            /\ obs[r].probe = "none"
            /\ Done(r) => Resp(r).status = 400 /\ Resp(r).msg = "Missing targetUrl header"

C1_Witness ==
    \E r \in Reqs :
        /\ "targetUrl" \notin DOMAIN request[r].headers
        /\ request[r].body # <<>>
        /\ Done(r)
        /\ Resp(r).status = 400

(* ---------------------------------------------------------------------- *)
(* C2 as stated: a request with an empty body (or a body whose read        *)
(* raises) is answered 400, whatever the state of the callback target.     *)
(* ---------------------------------------------------------------------- *)
C2_EmptyBodyAlways400 ==
    \A r \in Reqs : Done(r) /\ EmptyBody(r) => Resp(r).status = 400

(* C2 amended: a request with an empty body (or a body whose read raises)  *)
(* is answered 400 unless the connectivity probe of the callback target    *)
(* failed; then it is answered 500 and the body is not read.               *)
C2_EmptyBody400UnlessProbeFails ==
    \A r \in Reqs :
        Done(r) /\ EmptyBody(r) =>
            IF obs[r].probe = "failed"
            THEN Resp(r).status = 500 /\ ~obs[r].bodyRead
            ELSE Resp(r).status = 400

C2_Witness ==
    \E r \in Reqs :
        /\ Done(r) /\ EmptyBody(r) /\ request[r].readError
        /\ obs[r].probe = "ok" /\ obs[r].bodyRead
        /\ Resp(r).status = 400

(* ---------------------------------------------------------------------- *)
(* C3: what the claim requires of a request whose body is not empty and    *)
(* whose target is reachable and answers 200 to the first POST.            *)
(* ---------------------------------------------------------------------- *)
FirstAttempt200(r) ==
    /\ Active(r)
    /\ ~EmptyBody(r)
    /\ target[r].reachable
    /\ target[r].replies[1] = Status(200)

ForwardedOnce(r) ==
    /\ Resp(r).status = 200
    /\ Len(Posts(r)) >= 1
    /\ Posts(r)[1].data = request[r].body
    /\ int(Posts(r)[1].headers["Content-Length"]) = Len(request[r].body)
    /\ Posts(r)[1].headers["scan-result"] = "CLEAN"

(* C3 as stated: every such request is answered 200 and an outbound POST   *)
(* is made with the inbound bytes, their count as Content-Length and       *)
(* scan-result CLEAN.                                                      *)
C3_First200Forwards ==
    \A r \in Reqs : Done(r) /\ FirstAttempt200(r) => ForwardedOnce(r)

(* C3 amended: every such request whose verdict draw is clean is answered  *)
(* 200 after exactly one outbound POST with the inbound bytes, their count *)
(* as Content-Length and scan-result CLEAN.                                *)
C3_CleanFirst200Forwards ==
    \A r \in Reqs :
        Done(r) /\ FirstAttempt200(r) /\ DrawnClean(r) =>
            ForwardedOnce(r) /\ Len(Posts(r)) = 1

C3_Witness ==
    \E r \in Reqs :
        /\ Done(r) /\ FirstAttempt200(r) /\ DrawnClean(r)
        /\ Len(request[r].body) = MaxBodyLen
        /\ Len(Posts(r)) = 1
        /\ Resp(r).msg = "SUCCESS: File scanned and forwarded"

(* ---------------------------------------------------------------------- *)
(* C4: when the target answers non-200 to callback attempts 1 and 2 and    *)
(* 200 to attempt 3, the handler makes exactly 3 POSTs, sleeps 1 second    *)
(* between attempts 1 and 2 and 2 seconds between attempts 2 and 3, and    *)
(* responds 200.                                                           *)
(* ---------------------------------------------------------------------- *)
FailsTwiceThen200(r) ==
    /\ DrawnClean(r)
    /\ Non200(target[r].replies[1])
    /\ Non200(target[r].replies[2])
    /\ target[r].replies[3] = Status(200)

C4_ThirdAttemptSucceeds ==
    \A r \in Reqs :
        FailsTwiceThen200(r) =>
            /\ pc[r] = "backoff" => Len(Sleeps(r)) = Len(Posts(r)) - 1
            /\ pc[r] = "loop" => Len(Sleeps(r)) = Len(Posts(r))
            /\ Done(r) =>
                 /\ Len(Posts(r)) = 3
                 /\ Sleeps(r) = <<1, 2>>
                 /\ Resp(r).status = 200
                 /\ Resp(r).msg = "SUCCESS: File scanned and forwarded"

C4_Witness ==
    \E r \in Reqs :
        /\ FailsTwiceThen200(r) /\ Done(r)
        /\ Len(Posts(r)) = 3
        /\ Posts(r)[1].outcome.code # Posts(r)[2].outcome.code
        /\ Resp(r).status = 200

(* ---------------------------------------------------------------------- *)
(* C5: a request never makes more than 3 callback POSTs; when the target   *)
(* fails all 3 attempts (timeout, connection error or non-200, in any mix) *)
(* the response is 500, there is no 4th attempt, and nothing is slept      *)
(* after the 3rd failure.                                                  *)
(* ---------------------------------------------------------------------- *)
FailsAllAttempts(r) ==
    /\ DrawnClean(r)
    /\ \A k \in 1..max_retries : TransientFailure(target[r].replies[k])

C5_AtMostThreeAttempts ==
    \A r \in Reqs :
        /\ Len(Posts(r)) <= 3
        /\ Len(Sleeps(r)) <= 2
        /\ Len(Posts(r)) = 3 => Done(r) /\ Len(Sleeps(r)) = 2
        /\ FailsAllAttempts(r) /\ Done(r) =>
              /\ Len(Posts(r)) = 3
              /\ Resp(r).status = 500

C5_Witness ==
    \E r \in Reqs :
        /\ FailsAllAttempts(r) /\ Done(r)
        /\ Posts(r)[1].outcome.kind = "timeout"
        /\ Posts(r)[2].outcome.kind = "connerr"
        /\ Posts(r)[3].outcome.kind = "status"
        /\ Resp(r).status = 500

(* ---------------------------------------------------------------------- *)
(* C6: when the verdict draw is infected the handler responds 200 with     *)
(* the infection body, and makes no callback POST and no backoff sleep.    *)
(* ---------------------------------------------------------------------- *)
C6_InfectedNoCallback ==
    \A r \in Reqs :
        DrawnInfected(r) =>
            /\ Done(r)
            /\ Resp(r).status = 200
            /\ Resp(r).msg = "INFECTED: Simulated virus detected"
            /\ Posts(r) = <<>>
            /\ Sleeps(r) = <<>>

C6_Witness ==
    \E r \in Reqs :
        /\ obs[r].draw = InfectionThreshold - 1
        /\ Done(r)
        /\ target[r].replies[1] = Status(200)
        /\ Resp(r).msg = "INFECTED: Simulated virus detected"

(* ---------------------------------------------------------------------- *)
(* C7 as stated: every 500 caused by a transient delivery error (timeout,  *)
(* connection failure to the target, non-200 callback status) comes after  *)
(* 3 callback attempts; a connection failure to the target never gives a   *)
(* 500 with fewer.                                                         *)
(* ---------------------------------------------------------------------- *)
ProbeConnectFailed(r) ==
    /\ obs[r].probe = "failed"
    /\ local[r].target_url # PyNone
    /\ ParseHostPort(local[r].target_url).ok
    /\ ~target[r].reachable

C7_Transient500AfterThreeAttempts ==
    \A r \in Reqs :
        /\ Done(r)
        /\ Resp(r).status = 500
        /\ Resp(r).msg \in RetryMessages \/ ProbeConnectFailed(r)
        => Len(Posts(r)) = 3

(* C7 amended: every 500 caused by a transient error of a callback POST    *)
(* (timeout, connection error, non-200 status) comes after 3 callback      *)
(* attempts, all of them failed; a connection failure found by the         *)
(* connectivity probe gives a 500 with no callback attempt at all.         *)
C7_Post500AfterThreeAttempts ==
    \A r \in Reqs :
        Done(r) /\ Resp(r).status = 500 =>
            /\ Resp(r).msg \in RetryMessages =>
                 /\ Len(Posts(r)) = 3
                 /\ \A i \in 1..3 : TransientFailure(Posts(r)[i].outcome)
            /\ ProbeConnectFailed(r) =>
                 /\ Posts(r) = <<>>
                 /\ Resp(r).msg = "Cannot reach callback URL - check network configuration"
            /\ \/ Resp(r).msg \in RetryMessages
               \/ obs[r].probe = "failed"
               \/ Posts(r) # <<>> /\ Posts(r)[Len(Posts(r))].outcome.kind = "other"

C7_Witness ==
    \E r \in Reqs :
        /\ Done(r) /\ Resp(r).status = 500
        /\ Resp(r).msg = "Callback connection error after retries"
        /\ Len(Posts(r)) = 3
        /\ target[r].reachable

(* ---------------------------------------------------------------------- *)
(* C8: when the 3 attempts are used up, the 500 body is chosen by the      *)
(* outcome of the 3rd attempt alone: a non-200 names that status code, a   *)
(* timeout gives the timeout body, a connection error gives the            *)
(* connection-error body with that error's detail.                         *)
(* ---------------------------------------------------------------------- *)
C8_BodyOfLastAttempt ==
    \A r \in Reqs :
        Done(r) /\ Len(Posts(r)) = 3 /\ TransientFailure(Posts(r)[3].outcome) =>
            LET last == Posts(r)[3].outcome
            IN  /\ Resp(r).status = 500
                /\ last.kind = "status" =>
                     /\ Resp(r).msg = "Callback failed after attempts: HTTP"
                     /\ Resp(r).code = last.code
                /\ last.kind = "timeout" =>
                     Resp(r).msg = "Callback timeout after retries"
                /\ last.kind = "connerr" =>
                     /\ Resp(r).msg = "Callback connection error after retries"
                     /\ Resp(r).detail = last.detail

C8_Witness ==
    \E r \in Reqs :
        /\ Done(r) /\ Len(Posts(r)) = 3
        /\ Posts(r)[1].outcome = Status(404)
        /\ Posts(r)[2].outcome = TimeoutOutcome
        /\ Posts(r)[3].outcome = Status(503)
        /\ Resp(r).code = 503

(* ---------------------------------------------------------------------- *)
(* C9: on every callback POST the headers scan-reference-id,               *)
(* original-filename and original-content-type carry the inbound values,   *)
(* or "", "unknown" and "application/octet-stream" where the inbound       *)
(* header is absent.                                                       *)
(* ---------------------------------------------------------------------- *)
InboundOr(r, name, default) ==
    IF name \in DOMAIN request[r].headers THEN request[r].headers[name] ELSE default

C9_PassThroughHeaders ==
    \A r \in Reqs :
        \A i \in 1..Len(Posts(r)) :
            LET sent == Posts(r)[i].headers
            IN  /\ sent["scan-reference-id"] = InboundOr(r, "scan-reference-id", "")
                /\ sent["original-filename"] = InboundOr(r, "original-filename", "unknown")
                /\ sent["original-content-type"] =
                       InboundOr(r, "original-content-type", "application/octet-stream")

C9_Witness ==
    \E r \in Reqs :
        /\ Len(Posts(r)) = 2
        /\ "original-filename" \in DOMAIN request[r].headers
        /\ "original-content-type" \notin DOMAIN request[r].headers
        /\ Posts(r)[2].headers["original-filename"] = "a.txt"
        /\ Posts(r)[2].headers["original-content-type"] = "application/octet-stream"

(* ---------------------------------------------------------------------- *)
(* C10: every run of the handler ends in exactly one response with status  *)
(* 200, 400 or 500: until it has responded the run can always go on, it    *)
(* never leaves the retry loop without a return, and a delivery failure    *)
(* that is neither a timeout nor a connection error is answered 500.       *)
(* ---------------------------------------------------------------------- *)
C10_ExactlyOneResponse ==
    \A r \in Reqs :
        Active(r) =>
            /\ pc[r] # "no_return"
            /\ Len(obs[r].responses) = IF Done(r) THEN 1 ELSE 0
            /\ ~Done(r) => ENABLED scan_file(r)
            /\ Done(r) =>
                 /\ Resp(r).status \in {200, 400, 500}
                 /\ ~ENABLED scan_file(r)
                 /\ Posts(r) # <<>> /\ Posts(r)[Len(Posts(r))].outcome.kind = "other"
                      => Resp(r).status = 500

C10_Witness ==
    \E r \in Reqs :
        /\ Done(r)
        /\ Len(Posts(r)) = 2
        /\ Posts(r)[2].outcome.kind = "other"
        /\ Resp(r).status = 500
        /\ Resp(r).msg = "Callback error"

(* ---------------------------------------------------------------------- *)
(* C11: a request answered 400 has made no callback POST and no backoff    *)
(* sleep before the response.                                              *)
(* ---------------------------------------------------------------------- *)
C11_BadInputNoCallback ==
    \A r \in Reqs :
        Done(r) /\ Resp(r).status = 400 =>
            /\ Posts(r) = <<>>
            /\ Sleeps(r) = <<>>
            /\ obs[r].draw = -1
            /\ \/ NotTargetUrl(HeaderGet(request[r].headers, "targetUrl", PyNone))
               \/ EmptyBody(r)

C11_Witness ==
    \E r \in Reqs :
        /\ Done(r) /\ Resp(r).status = 400
        /\ Resp(r).msg = "No file content received"
        /\ target[r].reachable
        /\ target[r].replies[1] = Status(503)

(* ---------------------------------------------------------------------- *)
(* C12: GET /health answers 200 in every reachable state, whatever the     *)
(* /scan requests have done or are doing, and it changes nothing of any    *)
(* /scan request.                                                          *)
(* ---------------------------------------------------------------------- *)
C12_HealthAlways200 ==
    /\ [](HealthResponse.status = 200 /\ ENABLED health_check)
    /\ [](health.status \in {0, 200})
    /\ [][health' # health =>
             /\ health'.status = 200
             /\ UNCHANGED <<request, target, pc, local, obs>>]_vars

C12_Witness ==
    /\ health.status = 200
    /\ pc["r1"] = "backoff"
    /\ pc["r2"] = "done"
    /\ Resp("r2").status = 500

(* ---------------------------------------------------------------------- *)
(* C13: with two requests in flight, a request that has not responded can  *)
(* always take its next step, whatever the other one is waiting for; a     *)
(* step of one request changes nothing of the other; every callback        *)
(* carries the URL, payload and headers of its own request; and two        *)
(* requests with the same inputs, verdict draw and target replies end      *)
(* with the same response after the same outbound calls.                   *)
(* ---------------------------------------------------------------------- *)
OwnCallbacks(r) ==
    \A i \in 1..Len(Posts(r)) :
        /\ Posts(r)[i].url = request[r].headers["targetUrl"]
        /\ Posts(r)[i].data = request[r].body
        /\ Posts(r)[i].headers["scan-reference-id"] = InboundOr(r, "scan-reference-id", "")
        /\ Posts(r)[i].headers["original-filename"] = InboundOr(r, "original-filename", "unknown")
        /\ Posts(r)[i].headers["original-content-type"] =
               InboundOr(r, "original-content-type", "application/octet-stream")
        /\ Posts(r)[i].outcome = target[r].replies[i]

SameInputs(r, q) ==
    /\ request[r] = request[q]
    /\ target[r] = target[q]
    /\ obs[r].draw = obs[q].draw

C13_RequestsIndependent ==
    /\ [](\A r \in Reqs : Active(r) /\ ~Done(r) => ENABLED Run(r))
    /\ [](\A r \in Reqs : OwnCallbacks(r))
    /\ [](\A r, q \in Reqs :
            Done(r) /\ Done(q) /\ SameInputs(r, q) =>
                /\ obs[r].responses = obs[q].responses
                /\ Posts(r) = Posts(q)
                /\ Sleeps(r) = Sleeps(q))
    /\ [][\A r \in Reqs :
            pc'[r] # pc[r] \/ local'[r] # local[r] \/ obs'[r] # obs[r] =>
                \A q \in Reqs \ {r} :
                    pc'[q] = pc[q] /\ local'[q] = local[q] /\ obs'[q] = obs[q]]_vars
    /\ [][request' = request /\ target' = target]_vars

C13_Witness ==
    /\ pc["r1"] = "backoff"
    /\ pc["r2"] = "done"
    /\ request["r1"] # request["r2"]
    /\ Len(Posts("r1")) = 2
    /\ Len(Posts("r2")) = 3
    /\ Resp("r2").status = 500

(* ---------------------------------------------------------------------- *)
(* C14 as stated: no verdict is drawn and no callback POST is sent before  *)
(* the payload has been read in full and the scan delay has completed,     *)
(* and every step that decides whether delivery happens (the connectivity  *)
(* probe, the verdict draw) comes after the payload read.                  *)
(* ---------------------------------------------------------------------- *)
PayloadReadInFull(r) ==
    obs[r].bodyRead /\ local[r].file_content = request[r].body /\ ~EmptyBody(r)

C14_DecisionsAfterPayloadRead ==
    \A r \in Reqs :
        /\ obs[r].draw # -1 \/ Posts(r) # <<>> =>
              PayloadReadInFull(r) /\ obs[r].scanDelay # 0
        /\ obs[r].probe # "none" \/ obs[r].draw # -1 => obs[r].bodyRead

(* C14 amended: the steps of a request occur in the order validate         *)
(* targetUrl, connectivity probe, read full payload, scan delay, verdict   *)
(* draw, callback delivery, terminal response.  No verdict is drawn and    *)
(* no callback POST is sent before the payload has been read in full and   *)
(* the scan delay has completed; the verdict draw comes after the payload  *)
(* read, but the connectivity probe, which can end the request without     *)
(* delivery, comes before it.  Nothing follows the terminal response.      *)
StepsInOrder(r) ==
    /\ obs[r].probe # "none" =>
          /\ "targetUrl" \in DOMAIN request[r].headers
          /\ local[r].target_url = request[r].headers["targetUrl"]
    /\ obs[r].bodyRead => obs[r].probe = "ok"
    /\ obs[r].scanDelay # 0 => PayloadReadInFull(r)
    /\ obs[r].draw # -1 => obs[r].scanDelay # 0
    /\ Posts(r) # <<>> => DrawnClean(r)
    /\ obs[r].responses # <<>> => Done(r)

C14_ProbeThenReadThenVerdict ==
    /\ [](\A r \in Reqs : StepsInOrder(r))
    /\ [][\A r \in Reqs :
            /\ obs[r].probe # "none" => obs'[r].probe = obs[r].probe
            /\ obs[r].bodyRead => obs'[r].bodyRead
            /\ obs[r].scanDelay # 0 => obs'[r].scanDelay = obs[r].scanDelay
            /\ obs[r].draw # -1 => obs'[r].draw = obs[r].draw
            /\ Done(r) => pc'[r] = pc[r] /\ obs'[r] = obs[r]]_vars

C14_Witness ==
    \E r \in Reqs :
        /\ Done(r)
        /\ obs[r].probe = "ok"
        /\ obs[r].scanDelay = 20
        /\ obs[r].draw = InfectionThreshold
        /\ Len(Posts(r)) = 3

(* ---------------------------------------------------------------------- *)
(* C15: a 200 from the target on attempt k ends delivery at once: it is    *)
(* the last POST, no sleep follows it, and the handler responds 200 with   *)
(* the success body; and the success body is returned only when the last   *)
(* POST of the request returned 200 and every earlier one failed.          *)
(* ---------------------------------------------------------------------- *)
C15_SuccessEndsDelivery ==
    \A r \in Reqs :
        /\ \A k \in 1..Len(Posts(r)) :
              Posts(r)[k].outcome = Status(200) =>
                 /\ k = Len(Posts(r))
                 /\ Len(Sleeps(r)) = k - 1
                 /\ Done(r)
                 /\ Resp(r).status = 200
                 /\ Resp(r).msg = "SUCCESS: File scanned and forwarded"
                 /\ Resp(r).code = Len(request[r].body)
        /\ Done(r) /\ Resp(r).msg = "SUCCESS: File scanned and forwarded" =>
              /\ Posts(r) # <<>>
              /\ Posts(r)[Len(Posts(r))].outcome = Status(200)
              /\ \A j \in 1..(Len(Posts(r)) - 1) : TransientFailure(Posts(r)[j].outcome)

C15_Witness ==
    \E r \in Reqs :
        /\ Done(r)
        /\ Len(Posts(r)) = 2
        /\ Posts(r)[1].outcome = TimeoutOutcome
        /\ Posts(r)[2].outcome = Status(200)
        /\ target[r].replies[3] = Status(503)
        /\ Resp(r).msg = "SUCCESS: File scanned and forwarded"

(* ---------------------------------------------------------------------- *)
(* C16: the delay slept after failed attempt k (k < 3) is 2^(k-1) seconds  *)
(* whatever kinds of failure came before: it starts at 1, doubles once     *)
(* per failed attempt that is not the last, and exactly one sleep lies     *)
(* between two consecutive attempts.                                       *)
(* ---------------------------------------------------------------------- *)
C16_BackoffDoubles ==
    \A r \in Reqs :
        /\ \A k \in 1..Len(Sleeps(r)) :
              /\ Sleeps(r)[k] = 2 ^ (k - 1)
              /\ k < 3
              /\ k <= Len(Posts(r))
              /\ TransientFailure(Posts(r)[k].outcome)
        /\ pc[r] = "backoff" =>
              /\ Len(Sleeps(r)) = Len(Posts(r)) - 1
              /\ local[r].retry_delay = 2 ^ Len(Sleeps(r))
        /\ pc[r] = "loop" =>
              /\ Len(Sleeps(r)) = Len(Posts(r))
              /\ local[r].attempt = Len(Posts(r))
              /\ local[r].retry_delay = 2 ^ Len(Sleeps(r))
        /\ Done(r) /\ Posts(r) # <<>> => Len(Sleeps(r)) = Len(Posts(r)) - 1

C16_Witness ==
    \E r \in Reqs :
        /\ Done(r)
        /\ Sleeps(r) = <<1, 2>>
        /\ Posts(r)[1].outcome.kind = "connerr"
        /\ Posts(r)[2].outcome.kind = "timeout"
        /\ Posts(r)[3].outcome = Status(404)

(* ---------------------------------------------------------------------- *)
(* C17: an exception of a callback attempt that is neither a timeout nor   *)
(* a connection error ends delivery on that attempt with the 500 generic   *)
(* callback-error response: no retry and no sleep follow it, whatever the  *)
(* number of the attempt.                                                  *)
(* ---------------------------------------------------------------------- *)
C17_OtherErrorNotRetried ==
    \A r \in Reqs :
        \A k \in 1..Len(Posts(r)) :
            Posts(r)[k].outcome.kind = "other" =>
                /\ k = Len(Posts(r))
                /\ Len(Sleeps(r)) = k - 1
                /\ Done(r)
                /\ Resp(r).status = 500
                /\ Resp(r).msg = "Callback error"
                /\ Resp(r).detail = Posts(r)[k].outcome.detail

C17_Witness ==
    \E r \in Reqs :
        /\ Done(r)
        /\ Len(Posts(r)) = 1
        /\ Posts(r)[1].outcome = OtherErr("chunked encoding error")
        /\ target[r].replies[2] = Status(200)
        /\ Resp(r).msg = "Callback error"

(* ---------------------------------------------------------------------- *)
(* C18: every request that begins processing eventually reaches its        *)
(* terminal response, provided each wait eventually ends.                  *)
(* ---------------------------------------------------------------------- *)
C18_EveryRequestResponds ==
    \A r \in Reqs : Active(r) ~> Done(r)

C18_Witness ==
    \E r \in Reqs :
        /\ Done(r)
        /\ Len(Posts(r)) = 3
        /\ Sleeps(r) = <<1, 2>>
        /\ Posts(r)[3].outcome = TimeoutOutcome
        /\ Resp(r).msg = "Callback timeout after retries"

(* ---------------------------------------------------------------------- *)
(* C19: when targetUrl is present but the TCP connect to the target fails  *)
(* or the URL's port cannot be parsed, the handler responds 500 without    *)
(* reading the payload, without the scan delay, without a verdict draw     *)
(* and without any callback POST; the probe runs once per request.         *)
(* ---------------------------------------------------------------------- *)
ProbeCannotSucceed(r) ==
    /\ "targetUrl" \in DOMAIN request[r].headers
    /\ request[r].headers["targetUrl"] # <<>>
    /\ request[r].headers["targetUrl"] = UrlBadPort \/ ~target[r].reachable

C19_ProbeFailureEndsRequest ==
    \A r \in Reqs :
        /\ obs[r].probes <= 1
        /\ obs[r].probes = 1 <=> obs[r].probe # "none"
        /\ Active(r) /\ ProbeCannotSucceed(r) =>
              /\ pc[r] \in {"start", "probe", "done"}
              /\ ~obs[r].bodyRead
              /\ obs[r].scanDelay = 0
              /\ obs[r].draw = -1
              /\ Posts(r) = <<>>
              /\ Sleeps(r) = <<>>
              /\ Done(r) =>
                   /\ obs[r].probe = "failed"
                   /\ obs[r].probes = 1
                   /\ Resp(r).status = 500
                   /\ Resp(r).msg = "Cannot reach callback URL - check network configuration"

C19_Witness ==
    \E r \in Reqs :
        /\ Done(r)
        /\ "targetUrl" \in DOMAIN request[r].headers
        /\ request[r].headers["targetUrl"] = UrlBadPort
        /\ request[r].body # <<>>
        /\ obs[r].probes = 1
        /\ Resp(r).status = 500

(* ---------------------------------------------------------------------- *)
(* C20: all callback attempts of a request send the same target URL, the   *)
(* same payload bytes and the same headers; a failed attempt and its       *)
(* backoff change only the attempt counter and the backoff delay.          *)
(* ---------------------------------------------------------------------- *)
SameCallbackEveryAttempt(r) ==
    \A i \in 1..Len(Posts(r)) :
        /\ Posts(r)[i].url = Posts(r)[1].url
        /\ Posts(r)[i].data = Posts(r)[1].data
        /\ Posts(r)[i].headers = Posts(r)[1].headers
        /\ Posts(r)[i].timeout = Posts(r)[1].timeout
        /\ Posts(r)[i].url = request[r].headers["targetUrl"]
        /\ Posts(r)[i].data = request[r].body

C20_AttemptsSendTheSame ==
    /\ [](\A r \in Reqs : SameCallbackEveryAttempt(r))
    /\ [][\A r \in Reqs :
            pc[r] \in {"loop", "backoff"} =>
                /\ local'[r] = [local[r] EXCEPT !.attempt = local'[r].attempt,
                                                !.retry_delay = local'[r].retry_delay]
                /\ request'[r] = request[r]
                /\ target'[r] = target[r]]_vars

C20_Witness ==
    \E r \in Reqs :
        /\ Done(r)
        /\ Len(Posts(r)) = 3
        /\ Len(Posts(r)[3].data) = MaxBodyLen
        /\ Posts(r)[3].headers["scan-reference-id"] = "ref-1"
        /\ local[r].attempt = 2
        /\ local[r].retry_delay = 4

====
